---- MODULE Spec2Model ----
(***************************************************************************)
(* A model of convert.py (fizzrepo/Video-to-Text): the per-frame codec     *)
(* that dithers a greyscale frame to 7 levels, remaps it through a Markov  *)
(* rank matrix, Huffman-codes the ranks and serialises rank matrix, tree   *)
(* and packed codewords to the output file.                                *)
(*                                                                         *)
(* Python lists are sequences (1-based here, so list index i is sequence   *)
(* index i + 1); numpy arrays indexed by a symbol are functions over       *)
(* 0..NUMCHARS-1.  A bit string is a sequence over {0, 1}.                 *)
(***************************************************************************)
EXTENDS Integers, Sequences, FiniteSets, TLC

\* len(CHARSET), convert.py line 25
NUMCHARS == 7

\* Largest count an entry of an enumerated histogram takes.
MaxCnt == 2

\* Most cells a frame given directly to the encode loop has.
MaxPixels == 4

\* WIDTH and HEIGHT, lines 9-10, are 80 and 22 in the program; the grids
\* explored are of this size.
WIDTH == 3
HEIGHT == 2

\* Most frames a loaded video has.
MaxFrames == 2

\* NUM_CORES, line 17, is the machine's processor count; the pools explored
\* have this many workers.
NUM_CORES == 2

Sym == 0..(NUMCHARS - 1)

Min(a, b) == IF a < b THEN a ELSE b
Max(a, b) == IF a > b THEN a ELSE b

Pow2(n) == 2 ^ n

\* Arithmetic of numpy's uint16 scalars and arrays wraps modulo 2^16.
U16(n) == n % 65536

-----------------------------------------------------------------------------
(* compute_huffman, lines 116-164 *)

\* Python's < on lists: lexicographic.
ListLess(s, t) ==
    \E i \in 1..(Min(Len(s), Len(t)) + 1) :
        /\ \A j \in 1..(i - 1) : s[j] = t[j]
        /\ \/ (i > Len(s) /\ i <= Len(t))
           \/ (i <= Len(s) /\ i <= Len(t) /\ s[i] < t[i])

\* Python's < on the tuples (count, chars, node id) held in sizes.
EntryLess(a, b) ==
    \/ a.num < b.num
    \/ (a.num = b.num /\ ListLess(a.chars, b.chars))
    \/ (a.num = b.num /\ a.chars = b.chars /\ a.tree < b.tree)

\* A stable sort by count alone, largest first: equal counts keep seed order.
RECURSIVE SortedByCountOnly(_)
SortedByCountOnly(s) ==
    IF s = << >> THEN << >>
    ELSE LET init == SortedByCountOnly(SubSeq(s, 1, Len(s) - 1))
             e    == s[Len(s)]
             pos  == Cardinality({i \in 1..Len(init) : init[i].num >= e.num})
         IN  SubSeq(init, 1, pos) \o <<e>> \o SubSeq(init, pos + 1, Len(init))

\* sorted(sizes, reverse=True), line 129: the whole tuples are compared, and
\* elements that compare equal keep their order.
RECURSIVE SortedReverse(_)
SortedReverse(s) ==
    IF s = << >> THEN << >>
    ELSE LET init == SortedReverse(SubSeq(s, 1, Len(s) - 1))
             e    == s[Len(s)]
             pos  == Cardinality({i \in 1..Len(init) : ~EntryLess(init[i], e)})
         IN  SubSeq(init, 1, pos) \o <<e>> \o SubSeq(init, pos + 1, Len(init))

\* Lines 121-129: the state of compute_huffman on entry to its while loop.
HuffSeed(c) ==
    [codes |-> [i \in Sym |-> << >>],
     sizes |-> SortedReverse([k \in 1..NUMCHARS |->
                   [num |-> c[k - 1], chars |-> <<k - 1>>, tree |-> k - 1]]),
     tree  |-> [k \in 1..NUMCHARS |-> <<k - 1, k - 1>>]]

\* A loop that stops one merge early.
HuffLoopCondEarly(sizes) == Len(sizes) > 2

\* Line 131.
HuffLoopCond(sizes) == Len(sizes) > 1

\* The two pops with their names exchanged.
PopPairSwapped(sizes) ==
    [left  |-> sizes[Len(sizes)],
     right |-> sizes[Len(sizes) - 1],
     rest  |-> SubSeq(sizes, 1, Len(sizes) - 2)]

\* Lines 133-134: right is popped first, left second.
PopPair(sizes) ==
    [right |-> sizes[Len(sizes)],
     left  |-> sizes[Len(sizes) - 1],
     rest  |-> SubSeq(sizes, 1, Len(sizes) - 2)]

Range(s) == {s[i] : i \in 1..Len(s)}

\* An update that gives the bit to the first member of each side only.
UpdateCodesFirstOnly(codes, lchars, rchars) ==
    [c \in Sym |-> IF c = lchars[1] THEN <<0>> \o codes[c]
                   ELSE IF c = rchars[1] THEN <<1>> \o codes[c]
                   ELSE codes[c]]

\* Lines 143-146.
UpdateCodes(codes, lchars, rchars) ==
    [c \in Sym |-> IF c \in Range(lchars) THEN <<0>> \o codes[c]
                   ELSE IF c \in Range(rchars) THEN <<1>> \o codes[c]
                   ELSE codes[c]]

\* Lines 152-162: the first list index whose count is <= n, or len(sizes).
InsertPos(sizes, n) ==
    LET hits == {i \in 1..Len(sizes) : sizes[i].num <= n}
    IN  IF hits = {} THEN Len(sizes)
        ELSE (CHOOSE i \in hits : \A j \in hits : i <= j) - 1

\* Lines 133-162: one iteration of the while loop.
HuffStep(st) ==
    LET p     == PopPair(st.sizes)
        tree1 == Append(st.tree, <<p.left.tree, p.right.tree>>)
        sum   == U16(p.left.num + p.right.num)
        new   == [num   |-> sum,
                  chars |-> p.left.chars \o p.right.chars,
                  tree  |-> Len(tree1) - 1]
        pos   == InsertPos(p.rest, sum)
    IN  [codes |-> UpdateCodes(st.codes, p.left.chars, p.right.chars),
         sizes |-> SubSeq(p.rest, 1, pos) \o <<new>>
                       \o SubSeq(p.rest, pos + 1, Len(p.rest)),
         tree  |-> tree1]

RECURSIVE HuffLoop(_)
HuffLoop(st) == IF HuffLoopCond(st.sizes) THEN HuffLoop(HuffStep(st)) ELSE st

\* compute_huffman(cnts): the record holds the returned codes and tree.
ComputeHuffman(c) == HuffLoop(HuffSeed(c))

\* encode_tree, lines 227-239.
EncodeTree(t) ==
    [k \in 1..(Len(t) - NUMCHARS) |->
        t[NUMCHARS + k][1] * 16 + t[NUMCHARS + k][2]]

-----------------------------------------------------------------------------
(* Frames.  A frame is the sequence of its rows; frame.shape is (h, w). *)

Height(f) == Len(f)
Width(f) == Len(f[1])
NumPixels(f) == Height(f) * Width(f)

\* The n-th pixel (n = 0, 1, ...) of the raster scan
\* "for y in range(h): for x in range(w)".
Pixel(f, n) == f[(n \div Width(f)) + 1][(n % Width(f)) + 1]

-----------------------------------------------------------------------------
(* compute_markov, lines 73-114 *)

\* prevChar when the n-th pixel is visited: 0 before the first pixel
\* (lines 87 and 104), the previous pixel's symbol afterwards (95, 112).
PrevChar(f, n) == IF n = 0 THEN 0 ELSE Pixel(f, n - 1)

ZeroMatrix == [i \in Sym |-> [j \in Sym |-> 0]]

\* Lines 83-95: mat after the first n pixels.
RECURSIVE MatAfter(_, _)
MatAfter(f, n) ==
    IF n = 0 THEN ZeroMatrix
    ELSE LET m == MatAfter(f, n - 1)
             p == PrevChar(f, n - 1)
             c == Pixel(f, n - 1)
         IN  [m EXCEPT ![p][c] = U16(@ + 1)]

\* mat[i].argsort(): the indices of the row in ascending order of count, as
\* the list idx with idx[p + 1] the index at position p.  For a 7-element
\* array numpy sorts by insertion, which keeps equal counts in index order:
\* ArgsortUpTo(row, n) is the sorted list of the indices 0..n-1.
RECURSIVE ArgsortUpTo(_, _)
ArgsortUpTo(row, n) ==
    IF n = 0 THEN << >>
    ELSE LET idx == ArgsortUpTo(row, n - 1)
             pos == Cardinality({i \in 1..Len(idx) : row[idx[i]] <= row[n - 1]})
         IN  SubSeq(idx, 1, pos) \o <<n - 1>> \o SubSeq(idx, pos + 1, Len(idx))

Argsort(row) == ArgsortUpTo(row, NUMCHARS)

\* A ranking in which equal counts share a rank.
RankRowSharedTies(row) ==
    [c \in Sym |-> 6 - Cardinality({d \in Sym : row[d] < row[c]})]

\* Line 99 for one row: ranks[i][mat[i].argsort()] = 6 - np.arange(NUMCHARS)
\* on a row of zeros; the row after the first n positions of idx are assigned.
RECURSIVE AssignRanks(_, _)
AssignRanks(idx, n) ==
    IF n = 0 THEN [c \in Sym |-> 0]
    ELSE [AssignRanks(idx, n - 1) EXCEPT ![idx[n]] = 6 - (n - 1)]

RankRow(row) == AssignRanks(Argsort(row), NUMCHARS)

\* Lines 97-99: ranks after the rows 0..n-1 are assigned.
RECURSIVE RanksUpTo(_, _)
RanksUpTo(mat, n) ==
    IF n = 0 THEN ZeroMatrix
    ELSE [RanksUpTo(mat, n - 1) EXCEPT ![n - 1] = RankRow(mat[n - 1])]

RankMatrix(mat) == RanksUpTo(mat, NUMCHARS)

\* Lines 103-112: out after the first n pixels are remapped.
RECURSIVE MarkovOutAfter(_, _, _)
MarkovOutAfter(f, rk, n) ==
    IF n = 0 THEN [y \in 1..Height(f) |-> [x \in 1..Width(f) |-> 0]]
    ELSE [MarkovOutAfter(f, rk, n - 1)
             EXCEPT ![((n - 1) \div Width(f)) + 1][((n - 1) % Width(f)) + 1] =
                        rk[PrevChar(f, n - 1)][Pixel(f, n - 1)]]

MarkovOut(f, rk) == MarkovOutAfter(f, rk, NumPixels(f))

\* A count that misses the first pixel of the scan.
RECURSIVE CntAfterSkipFirst(_, _)
CntAfterSkipFirst(o, n) ==
    IF n <= 1 THEN [i \in Sym |-> 0]
    ELSE LET c == CntAfterSkipFirst(o, n - 1)
             r == Pixel(o, n - 1)
         IN  [c EXCEPT ![r] = U16(@ + 1)]

\* Lines 101-110: cnt after the first n pixels of out.
RECURSIVE CntAfter(_, _)
CntAfter(o, n) ==
    IF n = 0 THEN [i \in Sym |-> 0]
    ELSE LET c == CntAfter(o, n - 1)
             r == Pixel(o, n - 1)
         IN  [c EXCEPT ![r] = U16(@ + 1)]

\* compute_markov(frame): (out, ranks, cnt).
ComputeMarkov(f) ==
    LET mat == MatAfter(f, NumPixels(f))
        rk  == RankMatrix(mat)
        o   == MarkovOut(f, rk)
    IN  [out |-> o, ranks |-> rk, cnt |-> CntAfter(o, NumPixels(f))]

-----------------------------------------------------------------------------
(* convert_huffman, lines 167-197 *)

\* Lines 173-179: the bit string after the first n pixels.
RECURSIVE BitsAfter(_, _, _)
BitsAfter(mf, cd, n) ==
    IF n = 0 THEN << >>
    ELSE BitsAfter(mf, cd, n - 1) \o cd[Pixel(mf, n - 1)]

\* Line 182.
Padding(len) == (8 - (len % 8)) % 8

\* Line 183.
Padded(bits) == bits \o [i \in 1..Padding(Len(bits)) |-> 0]

\* An octet packed least-significant bit first.
RECURSIVE PackOctetLsbFirst(_, _)
PackOctetLsbFirst(byte, n) ==
    IF n = 0 THEN 0
    ELSE PackOctetLsbFirst(byte, n - 1) + (IF byte[n] = 1 THEN Pow2(n - 1) ELSE 0)

\* Lines 189-193: char after the first n bits of the octet.
RECURSIVE PackOctet(_, _)
PackOctet(byte, n) ==
    IF n = 0 THEN 0
    ELSE PackOctet(byte, n - 1) * 2 + (IF byte[n] = 1 THEN 1 ELSE 0)

\* Lines 186-195.
PackBits(out) ==
    [i \in 1..(Len(out) \div 8) |-> PackOctet(SubSeq(out, 8 * i - 7, 8 * i), 8)]

\* convert_huffman(markov_frame, codes); h, w are read from the global
\* frame, which has the shape of markov_frame.
ConvertHuffman(mf, cd, fr) ==
    PackBits(Padded(BitsAfter(mf, cd, NumPixels(fr))))

-----------------------------------------------------------------------------
(* encode_matrix, lines 199-225 *)

\* list.index: the position (from 0) of the first occurrence of v in s.
IndexOf(s, v) == (CHOOSE i \in 1..Len(s) : s[i] = v /\ \A j \in 1..(i - 1) : s[j] # v) - 1

\* list.remove: s without the first occurrence of v.
Remove(s, v) ==
    LET i == IndexOf(s, v) + 1
    IN  SubSeq(s, 1, i - 1) \o SubSeq(s, i + 1, Len(s))

\* row as the list list(row).
RowList(row) == [k \in 1..NUMCHARS |-> row[k - 1]]

\* The loop with fact multiplied by the pool size after the removal.
RECURSIVE EncodingFromLate(_, _, _, _, _)
EncodingFromLate(row, r, encoding, fact, idxs) ==
    IF r = NUMCHARS THEN encoding
    ELSE LET rank  == IndexOf(RowList(row), r)
             enc1  == encoding + IndexOf(idxs, rank) * fact
             idxs1 == Remove(idxs, rank)
             fact1 == fact * Len(idxs1)
         IN  EncodingFromLate(row, r + 1, enc1, fact1, idxs1)

\* Lines 212-217: the loop from iteration r on.
RECURSIVE EncodingFrom(_, _, _, _, _)
EncodingFrom(row, r, encoding, fact, idxs) ==
    IF r = NUMCHARS THEN encoding
    ELSE LET rank  == IndexOf(RowList(row), r)
             enc1  == encoding + IndexOf(idxs, rank) * fact
             fact1 == fact * Len(idxs)
             idxs1 == Remove(idxs, rank)
         IN  EncodingFrom(row, r + 1, enc1, fact1, idxs1)

RowEncodingLate(row) ==
    EncodingFromLate(row, 0, 0, 1, [k \in 1..NUMCHARS |-> k - 1])

\* Lines 207-217: encoding for one row.
RowEncoding(row) ==
    EncodingFrom(row, 0, 0, 1, [k \in 1..NUMCHARS |-> k - 1])

\* Lines 219-220.
LowByte(encoding) == encoding % 256
HighByte(encoding) == (encoding - LowByte(encoding)) \div 256

\* Lines 206-223: the loop over the rows from row i on; out is the list of
\* bytes so far, high byte then low byte for each row.
RECURSIVE EncodeMatrixFrom(_, _, _)
EncodeMatrixFrom(rk, i, bytes) ==
    IF i = NUMCHARS THEN bytes
    ELSE LET e == RowEncoding(rk[i])
         IN  EncodeMatrixFrom(rk, i + 1, bytes \o <<HighByte(e), LowByte(e)>>)

\* encode_matrix(ranks).
EncodeMatrix(rk) == EncodeMatrixFrom(rk, 0, << >>)

-----------------------------------------------------------------------------
(* process_frame, lines 28-57.  Real numbers are held in fixed point, in    *)
(* units of 1/16000 of a level, so that LEVELS and the rescaling are whole   *)
(* numbers; a division that is inexact is rounded toward zero.               *)

\* LEVELS, line 24, in units of 1/16000; LEVELS[level + 1] is LEVELS[level].
LEVELS == <<0, 16960, 34672, 48576, 63632, 75680, 96000>>

DivTrunc(a, b) == IF a >= 0 THEN a \div b ELSE -((-a) \div b)

\* Line 33: scaled * 6. / 255.
Reduced(scaled) ==
    [y \in 1..HEIGHT |-> [x \in 1..WIDTH |-> (scaled[y][x] * 96000) \div 255]]

\* Line 39: min(6, max(0, int(v))).
Level(v) == Min(6, Max(0, DivTrunc(v, 16000)))

\* Lines 41-43.
Err16(v) == DivTrunc(v - LEVELS[Level(v) + 1], 16)

\* Lines 45-53: the additions the code makes when it visits (x, y), in the
\* order it makes them, each as <<row, column, weight>>: the cell added to
\* and the number of sixteenths of the error it receives.
TargetList(y, x) ==
    (IF (x + 1) < WIDTH THEN <<(<<y, x + 1, 7>>)>> ELSE << >>)
    \o (IF (y + 1) < HEIGHT THEN <<(<<y + 1, x, 5>>)>> ELSE << >>)
    \o (IF (y + 1) < HEIGHT /\ (x + 1) < WIDTH THEN <<(<<y + 1, x + 1, 1>>)>> ELSE << >>)
    \o (IF (y + 1) < HEIGHT /\ (x - 1) > 0 THEN <<(<<y + 1, x - 1, 3>>)>> ELSE << >>)

\* reduced after the first n additions of the list T, each of weight * e.
RECURSIVE Diffuse(_, _, _, _)
Diffuse(red, T, e, n) ==
    IF n = 0 THEN red
    ELSE LET t == T[n]
         IN  [Diffuse(red, T, e, n - 1) EXCEPT ![t[1] + 1][t[2] + 1] = @ + t[3] * e]

\* Lines 39-55: the visit of cell (x, y); st holds reduced and out.
ProcessCell(st, y, x) ==
    LET v == st.reduced[y + 1][x + 1]
        T == TargetList(y, x)
    IN  [reduced |-> Diffuse(st.reduced, T, Err16(v), Len(T)),
         out     |-> [st.out EXCEPT ![y + 1][x + 1] = Level(v)]]

\* Lines 33-35.
DitherStart(scaled) ==
    [reduced |-> Reduced(scaled),
     out     |-> [y \in 1..HEIGHT |-> [x \in 1..WIDTH |-> 0]]]

\* Lines 37-55: the state after the first n cells of the raster scan.
RECURSIVE DitherAfter(_, _)
DitherAfter(scaled, n) ==
    IF n = 0 THEN DitherStart(scaled)
    ELSE ProcessCell(DitherAfter(scaled, n - 1), (n - 1) \div WIDTH, (n - 1) % WIDTH)

\* process_frame(scaled).
ProcessFrame(scaled) == DitherAfter(scaled, HEIGHT * WIDTH).out

-----------------------------------------------------------------------------
VARIABLES
    pc,            \* the control position
    cnts,          \* the histogram (cnts, line 271; compute_huffman's argument)
    codes,         \* codes[i], the codeword of rank-symbol i
    sizes,         \* compute_huffman's working list
    tree,          \* the list of (left, right) nodes
    tree_data,     \* encode_tree's result
    frames,        \* the dithered frames, line 262
    frame_idx,             \* how many frames the encode loop has taken
    frame,         \* the loop variable of line 270
    markov_frame,  \* line 271
    ranks,         \* line 271
    chars,         \* line 274
    matrix_data,   \* line 276
    filehandle,    \* the output file: the byte arrays written, in order
    size,          \* line 283
    vid_frames,    \* the loaded greyscale frames, line 258
    results,       \* the slots of the list Parallel returns
    running,       \* the tasks handed to a worker and not yet finished
    finish_order,  \* the tasks in the order their workers finished
    reduced,       \* process_frame's working grid
    out,           \* process_frame's output grid
    pos,           \* how many cells process_frame has visited
    touched        \* the cells the last visit added error to, with weights

huffVars == <<cnts, codes, tree, tree_data>>
loopVars == <<frames, frame_idx, frame, markov_frame, ranks, chars, matrix_data,
              filehandle, size>>
mainVars == <<vid_frames, results, running, finish_order>>
ditherVars == <<reduced, out, pos, touched>>

vars == <<pc, sizes, huffVars, loopVars, mainVars, ditherVars>>

IdleHuff ==
    /\ cnts = [i \in Sym |-> 0]
    /\ codes = [i \in Sym |-> << >>]
    /\ tree = << >>
    /\ tree_data = << >>

IdleLoop ==
    /\ frame_idx = 0
    /\ frame = << >>
    /\ markov_frame = << >>
    /\ ranks = ZeroMatrix
    /\ chars = << >>
    /\ matrix_data = << >>
    /\ filehandle = << >>
    /\ size = 0

IdleMain ==
    /\ vid_frames = << >>
    /\ results = << >>
    /\ running = {}
    /\ finish_order = << >>

IdleDither ==
    /\ reduced = << >>
    /\ out = << >>
    /\ pos = 0
    /\ touched = {}

-----------------------------------------------------------------------------
(* compute_huffman and encode_tree, step by step, on every small histogram *)

Histograms == [Sym -> 0..MaxCnt]

InitHuffman ==
    /\ pc = "seed"
    /\ cnts \in Histograms
    /\ codes = [i \in Sym |-> << >>]
    /\ sizes = << >>
    /\ tree = << >>
    /\ tree_data = << >>
    /\ frames = << >>
    /\ IdleLoop /\ IdleMain /\ IdleDither

HuffmanSeed ==
    /\ pc = "seed"
    /\ LET st == HuffSeed(cnts)
       IN  /\ codes' = st.codes
           /\ sizes' = st.sizes
           /\ tree' = st.tree
    /\ pc' = "loop"
    /\ UNCHANGED <<cnts, tree_data, loopVars, mainVars, ditherVars>>

HuffmanMerge ==
    /\ pc = "loop"
    /\ HuffLoopCond(sizes)
    /\ LET st == HuffStep([codes |-> codes, sizes |-> sizes, tree |-> tree])
       IN  /\ codes' = st.codes
           /\ sizes' = st.sizes
           /\ tree' = st.tree
    /\ UNCHANGED <<pc, cnts, tree_data, loopVars, mainVars, ditherVars>>

HuffmanReturn ==
    /\ pc = "loop"
    /\ ~HuffLoopCond(sizes)
    /\ pc' = "returned"
    /\ UNCHANGED <<sizes, huffVars, loopVars, mainVars, ditherVars>>

HuffmanEncodeTree ==
    /\ pc = "returned"
    /\ tree_data' = EncodeTree(tree)
    /\ pc' = "encoded"
    /\ UNCHANGED <<cnts, codes, sizes, tree, loopVars, mainVars, ditherVars>>

NextHuffman == HuffmanSeed \/ HuffmanMerge \/ HuffmanReturn \/ HuffmanEncodeTree

SpecHuffman == InitHuffman /\ [][NextHuffman]_vars

-----------------------------------------------------------------------------
(* The encode loop, lines 269-283 *)

\* Line 270: the next frame of the list.
LoopNext ==
    /\ pc = "loop_head"
    /\ frame_idx < Len(frames)
    /\ frame' = frames[frame_idx + 1]
    /\ frame_idx' = frame_idx + 1
    /\ pc' = "markov"
    /\ UNCHANGED <<sizes, huffVars, frames, markov_frame, ranks, chars,
                   matrix_data, filehandle, size, mainVars, ditherVars>>

\* Line 270: the list is exhausted; the file is closed.
LoopExit ==
    /\ pc = "loop_head"
    /\ frame_idx = Len(frames)
    /\ pc' = "done"
    /\ UNCHANGED <<sizes, huffVars, loopVars, mainVars, ditherVars>>

\* Line 271.
Markov ==
    /\ pc = "markov"
    /\ LET m == ComputeMarkov(frame)
       IN  /\ markov_frame' = m.out
           /\ ranks' = m.ranks
           /\ cnts' = m.cnt
    /\ pc' = "huffman"
    /\ UNCHANGED <<sizes, codes, tree, tree_data, frames, frame_idx, frame, chars,
                   matrix_data, filehandle, size, mainVars, ditherVars>>

\* Line 273.
Huffman ==
    /\ pc = "huffman"
    /\ LET hf == ComputeHuffman(cnts)
       IN  /\ codes' = hf.codes
           /\ tree' = hf.tree
    /\ pc' = "convert"
    /\ UNCHANGED <<sizes, cnts, tree_data, loopVars, mainVars, ditherVars>>

\* Line 274.
Convert ==
    /\ pc = "convert"
    /\ chars' = ConvertHuffman(markov_frame, codes, frame)
    /\ pc' = "encode_matrix"
    /\ UNCHANGED <<sizes, huffVars, frames, frame_idx, frame, markov_frame, ranks,
                   matrix_data, filehandle, size, mainVars, ditherVars>>

\* Line 276.
EncodeMatrixCall ==
    /\ pc = "encode_matrix"
    /\ matrix_data' = EncodeMatrix(ranks)
    /\ pc' = "encode_tree"
    /\ UNCHANGED <<sizes, huffVars, frames, frame_idx, frame, markov_frame, ranks,
                   chars, filehandle, size, mainVars, ditherVars>>

\* Line 277.
EncodeTreeCall ==
    /\ pc = "encode_tree"
    /\ tree_data' = EncodeTree(tree)
    /\ pc' = "write_matrix"
    /\ UNCHANGED <<sizes, cnts, codes, tree, loopVars, mainVars, ditherVars>>

\* Line 279.
WriteMatrix ==
    /\ pc = "write_matrix"
    /\ filehandle' = Append(filehandle, matrix_data)
    /\ pc' = "write_tree"
    /\ UNCHANGED <<sizes, huffVars, frames, frame_idx, frame, markov_frame, ranks,
                   chars, matrix_data, size, mainVars, ditherVars>>

\* Line 280.
WriteTree ==
    /\ pc = "write_tree"
    /\ filehandle' = Append(filehandle, tree_data)
    /\ pc' = "write_chars"
    /\ UNCHANGED <<sizes, huffVars, frames, frame_idx, frame, markov_frame, ranks,
                   chars, matrix_data, size, mainVars, ditherVars>>

\* Lines 281-283.
WriteChars ==
    /\ pc = "write_chars"
    /\ filehandle' = Append(filehandle, chars)
    /\ size' = size + Len(matrix_data) + Len(tree_data) + Len(chars)
    /\ pc' = "loop_head"
    /\ UNCHANGED <<sizes, huffVars, frames, frame_idx, frame, markov_frame, ranks,
                   chars, matrix_data, mainVars, ditherVars>>

EncodeLoop ==
    \/ LoopNext \/ LoopExit \/ Markov \/ Huffman \/ Convert
    \/ EncodeMatrixCall \/ EncodeTreeCall
    \/ WriteMatrix \/ WriteTree \/ WriteChars

\* The quantized frames of at most MaxPixels cells, of every shape.
QuantizedFrames ==
    UNION {[1..h -> [1..w -> Sym]] :
              <<h, w>> \in {d \in (1..MaxPixels) \X (1..MaxPixels) :
                               d[1] * d[2] <= MaxPixels}}

\* The encode loop entered with one quantized frame in the list.
InitFrame ==
    /\ pc = "loop_head"
    /\ frames \in {<<f>> : f \in QuantizedFrames}
    /\ sizes = << >>
    /\ IdleHuff /\ IdleLoop /\ IdleMain /\ IdleDither

NextFrame == EncodeLoop

SpecFrame == InitFrame /\ [][NextFrame]_vars

-----------------------------------------------------------------------------
(* encode_matrix on every permutation *)

RowPermutations == {p \in [Sym -> Sym] : \A i, j \in Sym : i # j => p[i] # p[j]}

\* Line 276 reached with a rank matrix whose rows all hold the permutation p.
InitMatrix ==
    /\ pc = "encode_matrix"
    /\ ranks \in {[i \in Sym |-> p] : p \in RowPermutations}
    /\ sizes = << >>
    /\ frames = << >>
    /\ frame_idx = 0
    /\ frame = << >>
    /\ markov_frame = << >>
    /\ chars = << >>
    /\ matrix_data = << >>
    /\ filehandle = << >>
    /\ size = 0
    /\ IdleHuff /\ IdleMain /\ IdleDither

NextMatrix == EncodeMatrixCall

SpecMatrix == InitMatrix /\ [][NextMatrix]_vars

-----------------------------------------------------------------------------
(* process_frame, cell by cell *)

GreyLevels == {0, 110, 255}

GreyFrames == [1..HEIGHT -> [1..WIDTH -> GreyLevels]]

\* process_frame entered with a greyscale frame: the state after line 35.
InitDither ==
    /\ pc = "dither_cell"
    /\ \E scaled \in GreyFrames :
          /\ reduced = DitherStart(scaled).reduced
          /\ out = DitherStart(scaled).out
    /\ pos = 0
    /\ touched = {}
    /\ sizes = << >>
    /\ frames = << >>
    /\ IdleHuff /\ IdleLoop /\ IdleMain

\* Lines 39-55 for the cell x = pos % WIDTH, y = pos // WIDTH.
DitherCell ==
    /\ pc = "dither_cell"
    /\ pos < HEIGHT * WIDTH
    /\ LET y  == pos \div WIDTH
           x  == pos % WIDTH
           st == ProcessCell([reduced |-> reduced, out |-> out], y, x)
       IN  /\ reduced' = st.reduced
           /\ out' = st.out
           /\ touched' = Range(TargetList(y, x))
    /\ pos' = pos + 1
    /\ UNCHANGED <<pc, sizes, huffVars, loopVars, mainVars>>

\* Line 57.
DitherReturn ==
    /\ pc = "dither_cell"
    /\ pos = HEIGHT * WIDTH
    /\ pc' = "dithered"
    /\ UNCHANGED <<sizes, huffVars, loopVars, mainVars, ditherVars>>

NextDither == DitherCell \/ DitherReturn

SpecDither == InitDither /\ [][NextDither]_vars

-----------------------------------------------------------------------------
(* The program from the loaded frames on, lines 262-283 *)

\* The list Parallel returns has no value yet in this slot.
NoResult == << >>

\* The greyscale frames a video is drawn from: one flat frame per grey level.
FlatFrames == {[y \in 1..HEIGHT |-> [x \in 1..WIDTH |-> g]] : g \in GreyLevels}

Videos == UNION {[1..n -> FlatFrames] : n \in 0..MaxFrames}

\* A result filed in the first free slot, that is, in order of completion.
StoreInCompletionOrder(res, i, r) ==
    LET free == CHOOSE j \in 1..Len(res) :
                    res[j] = NoResult /\ \A m \in 1..(j - 1) : res[m] # NoResult
    IN  [res EXCEPT ![free] = r]

\* Line 262: Parallel returns the results in the order of the tasks it was
\* given: the result of task i is element i of the list.
StoreResult(res, i, r) == [res EXCEPT ![i] = r]

InitMain ==
    /\ pc = "dither"
    /\ vid_frames \in Videos
    /\ results = [i \in 1..Len(vid_frames) |-> NoResult]
    /\ running = {}
    /\ finish_order = << >>
    /\ frames = << >>
    /\ sizes = << >>
    /\ IdleHuff /\ IdleLoop /\ IdleDither

Finished == Range(finish_order)

\* Line 262: a free worker (of NUM_CORES) takes the next task of the
\* generator.
DitherDispatch ==
    /\ pc = "dither"
    /\ Cardinality(running) < NUM_CORES
    /\ \E i \in 1..Len(vid_frames) :
          /\ i \notin running \cup Finished
          /\ \A j \in 1..(i - 1) : j \in running \cup Finished
          /\ running' = running \cup {i}
    /\ UNCHANGED <<pc, sizes, huffVars, loopVars, vid_frames, results,
                   finish_order, ditherVars>>

\* Line 262: some worker finishes process_frame on its frame.
DitherComplete ==
    /\ pc = "dither"
    /\ \E i \in running :
          /\ results' = StoreResult(results, i, ProcessFrame(vid_frames[i]))
          /\ running' = running \ {i}
          /\ finish_order' = Append(finish_order, i)
    /\ UNCHANGED <<pc, sizes, huffVars, loopVars, vid_frames,
                   ditherVars>>

\* Line 262: every task is done and Parallel returns the list.
DitherGather ==
    /\ pc = "dither"
    /\ Finished = 1..Len(vid_frames)
    /\ frames' = results
    /\ pc' = "loop_head"
    /\ UNCHANGED <<sizes, huffVars, frame_idx, frame, markov_frame, ranks,
                   chars, matrix_data, filehandle, size, mainVars, ditherVars>>

NextMain == DitherDispatch \/ DitherComplete \/ DitherGather \/ EncodeLoop

SpecMain == InitMain /\ [][NextMain]_vars

-----------------------------------------------------------------------------
(* Properties of compute_huffman and encode_tree *)

RECURSIVE KraftSum(_)
\* The sum of 2^-len(codes[s]) over s in S, in units of 2^-(NUMCHARS-1):
\* no codeword of a NUMCHARS-leaf tree is longer than NUMCHARS-1 bits.
KraftSum(S) ==
    IF S = {} THEN 0
    ELSE LET s == CHOOSE t \in S : TRUE
         IN  Pow2((NUMCHARS - 1) - Len(codes[s])) + KraftSum(S \ {s})

KraftOne == Pow2(NUMCHARS - 1)

NonZero == {s \in Sym : cnts[s] # 0}

\* What every histogram compute_markov returns for a non-empty frame has:
\* some mass, and no rank more frequent than a smaller rank.
FrameHistogram ==
    /\ \E s \in Sym : cnts[s] > 0
    /\ \A s \in Sym : s + 1 \in Sym => cnts[s] >= cnts[s + 1]

\* C1 (as amended): for every histogram, encode_tree of the tree that
\* compute_huffman returns is exactly NUMCHARS-1 = 6 bytes, one per internal
\* node; the internal nodes are the ids 7..12 appended after the 7 leaves, and
\* byte k is left*16 + right of node 7+k with both child ids below 16.
C1_TreeBytes ==
    pc = "encoded" =>
        /\ Len(tree) = 2 * NUMCHARS - 1
        /\ Len(tree_data) = NUMCHARS - 1
        /\ \A k \in 1..Len(tree_data) :
              /\ tree[NUMCHARS + k][1] \in 0..15
              /\ tree[NUMCHARS + k][2] \in 0..15
              /\ tree_data[k] \div 16 = tree[NUMCHARS + k][1]
              /\ tree_data[k] % 16 = tree[NUMCHARS + k][2]

\* C1 as stated: encode_tree yields exactly 5 bytes, for the nodes 7..11.
C1_FiveBytes ==
    pc = "encoded" => (Len(tree_data) = 5 /\ Len(tree) = NUMCHARS + 5)

C1_Witness ==
    /\ pc = "encoded"
    /\ Len(tree_data) = NUMCHARS - 1
    /\ \A s \in Sym : cnts[s] = 0

\* C3 (as amended): the codewords compute_huffman returns satisfy
\* sum of 2^-len(codes[s]) = 1 with the sum taken over all 7 rank-symbols,
\* zero-count ones included; over the nonzero-count symbols alone the sum is 1
\* exactly when no count is zero, and below 1 otherwise.
C3_KraftAll ==
    pc = "returned" =>
        /\ \A s \in Sym : Len(codes[s]) \in 1..(NUMCHARS - 1)
        /\ KraftSum(Sym) = KraftOne
        /\ KraftSum(NonZero) <= KraftOne
        /\ (KraftSum(NonZero) = KraftOne) <=> (NonZero = Sym)

\* C3 as stated: for a histogram produced from a frame, the sum over the
\* symbols of nonzero count is 1.
C3_KraftNonZero ==
    (pc = "returned" /\ FrameHistogram) => KraftSum(NonZero) = KraftOne

C3_Witness ==
    /\ pc = "returned"
    /\ cnts[0] > 0
    /\ \A s \in Sym \ {0} : cnts[s] = 0
    /\ KraftSum(Sym) = KraftOne

JustSeeded == pc = "loop" /\ Len(tree) = NUMCHARS

\* C8 (as amended): on entry to the loop the working list is sorted
\* descending by count, and seed entries of equal count appear in DESCENDING
\* symbol-id order; so among equal-count leaves the lowest symbol id is at the
\* tail and is removed first.
C8_SeedOrder ==
    JustSeeded =>
        /\ Len(sizes) = NUMCHARS
        /\ \A i \in 1..NUMCHARS : sizes[i].num = cnts[sizes[i].tree]
        /\ \A i, j \in 1..NUMCHARS :
              i < j => \/ sizes[i].num > sizes[j].num
                       \/ (sizes[i].num = sizes[j].num
                             /\ sizes[i].tree > sizes[j].tree)

\* C8 as stated: equal counts appear in ascending symbol-id order.
C8_SeedOrderAscending ==
    JustSeeded =>
        \A i, j \in 1..Len(sizes) :
            i < j => \/ sizes[i].num > sizes[j].num
                     \/ (sizes[i].num = sizes[j].num
                           /\ sizes[i].tree < sizes[j].tree)

C8_Witness ==
    /\ JustSeeded
    /\ sizes[NUMCHARS].num = sizes[NUMCHARS - 1].num
    /\ sizes[NUMCHARS].tree < sizes[NUMCHARS - 1].tree
    /\ sizes[1].num > sizes[NUMCHARS].num

\* A step of the while loop: the step that appends a node to tree.
MergeStep == pc = "loop" /\ pc' = "loop" /\ Len(tree') = Len(tree) + 1

FirstRemoved == sizes[Len(sizes)]
SecondRemoved == sizes[Len(sizes) - 1]

\* C9 (as amended): in every merge step the entry removed first from the
\* tail (the smallest count) becomes the RIGHT child of the new node and its
\* members get bit 1 prepended; the entry removed second becomes the LEFT
\* child and its members get bit 0 prepended.
C9_FirstRemovedIsRight ==
    [][MergeStep =>
        /\ \A i \in 1..Len(sizes) : FirstRemoved.num <= sizes[i].num
        /\ tree'[Len(tree')] = <<SecondRemoved.tree, FirstRemoved.tree>>
        /\ \A c \in Range(FirstRemoved.chars) : codes'[c] = <<1>> \o codes[c]
        /\ \A c \in Range(SecondRemoved.chars) : codes'[c] = <<0>> \o codes[c]
      ]_vars

\* C9 as stated: first removed is the left child with bit 0, second removed
\* the right child with bit 1.
C9_FirstRemovedIsLeft ==
    [][MergeStep =>
        /\ tree'[Len(tree')] = <<FirstRemoved.tree, SecondRemoved.tree>>
        /\ \A c \in Range(FirstRemoved.chars) : codes'[c] = <<0>> \o codes[c]
        /\ \A c \in Range(SecondRemoved.chars) : codes'[c] = <<1>> \o codes[c]
      ]_vars

C9_Witness ==
    /\ pc = "loop"
    /\ Len(tree) = NUMCHARS + 2
    /\ tree[Len(tree)][2] >= NUMCHARS
    /\ \E c \in Sym : Len(codes[c]) = 2 /\ codes[c][1] = 1

-----------------------------------------------------------------------------
(* Properties of compute_markov, convert_huffman and encode_matrix *)

RECURSIVE SumOver(_, _)
\* c[0] + ... + c[n - 1]
SumOver(c, n) == IF n = 0 THEN 0 ELSE SumOver(c, n - 1) + c[n - 1]

\* The frame in raster order.
Raster(f) == [n \in 1..NumPixels(f) |-> Pixel(f, n - 1)]

\* The bits of a byte sequence, most significant bit of each byte first.
BitsOf(bytes) ==
    [j \in 1..(8 * Len(bytes)) |->
        (bytes[((j - 1) \div 8) + 1] \div Pow2(7 - ((j - 1) % 8))) % 2]

\* One symbol read from bit p on: down the tree from node, bit 0 to the left
\* child and bit 1 to the right child, until a leaf (an id below NUMCHARS).
\* The result is <<symbol, next bit>>; symbol -1 says the bits ran out.
RECURSIVE DecodeSymbol(_, _, _, _)
DecodeSymbol(bits, tr, node, p) ==
    IF node < NUMCHARS THEN <<node, p>>
    ELSE IF p > Len(bits) THEN <<-1, p>>
    ELSE DecodeSymbol(bits, tr, tr[node + 1][bits[p] + 1], p + 1)

\* n symbols read from bit p on, each from the root, the last node of tr.
RECURSIVE DecodeSymbols(_, _, _, _, _)
DecodeSymbols(bits, tr, n, p, acc) ==
    IF n = 0 THEN [syms |-> acc, next |-> p]
    ELSE LET r == DecodeSymbol(bits, tr, Len(tr) - 1, p)
         IN  DecodeSymbols(bits, tr, n - 1, r[2], Append(acc, r[1]))

\* C2: decoding the bytes of convert_huffman bit by bit, most significant
\* bit first, down the tree compute_huffman built from the frame's histogram,
\* and stopping after width*height symbols, recovers the rank-symbol frame in
\* raster order; what is left unread is the zero padding, fewer than 8 bits.
C2_BitPackRoundTrip ==
    pc = "encode_matrix" =>
        LET bits == BitsOf(chars)
            d    == DecodeSymbols(bits, tree, NumPixels(markov_frame), 1, << >>)
        IN  /\ d.syms = Raster(markov_frame)
            /\ Len(bits) - (d.next - 1) \in 0..7
            /\ \A j \in d.next..Len(bits) : bits[j] = 0

C2_Witness ==
    /\ pc = "encode_matrix"
    /\ NumPixels(markov_frame) >= 3
    /\ \E a, b \in 0..(NumPixels(markov_frame) - 1) :
          Pixel(markov_frame, a) # Pixel(markov_frame, b)
    /\ \E v \in Range(chars) : v # 0
    /\ SumOver([n \in 0..(NumPixels(markov_frame) - 1) |->
                   Len(codes[Pixel(markov_frame, n)])],
               NumPixels(markov_frame)) % 8 # 0

\* The permutation a 16-bit value stands for: the mixed-radix digits, least
\* significant first with radices 7, 6, ..., 1, each the position in the
\* shrinking pool of the symbol that holds rank r.
RECURSIVE DecodeRowFrom(_, _, _, _)
DecodeRowFrom(v, r, idxs, row) ==
    IF r = NUMCHARS THEN row
    ELSE LET sym == idxs[(v % Len(idxs)) + 1]
         IN  DecodeRowFrom(v \div Len(idxs), r + 1, Remove(idxs, sym),
                           [row EXCEPT ![sym] = r])

DecodeRow(v) ==
    DecodeRowFrom(v, 0, [j \in 1..NUMCHARS |-> j - 1], [c \in Sym |-> 0])

\* The value encode_matrix emits for row i: high_byte * 256 + low_byte.
RowValue(i) == matrix_data[2 * i + 1] * 256 + matrix_data[2 * i + 2]

\* C4: for every permutation of 0..6 the value high_byte*256 + low_byte
\* that encode_matrix emits is in [0, 5039] and its mixed-radix digits decode
\* back to the permutation, so no two permutations share a value.
C4_PermutationRoundTrip ==
    pc = "encode_tree" =>
        /\ Len(matrix_data) = 2 * NUMCHARS
        /\ \A i \in Sym :
              /\ matrix_data[2 * i + 1] \in 0..255
              /\ matrix_data[2 * i + 2] \in 0..255
              /\ RowValue(i) \in 0..5039
              /\ DecodeRow(RowValue(i)) = ranks[i]

C4_Witness ==
    /\ pc = "encode_tree"
    /\ RowValue(0) = 5039
    /\ ranks[0] # [c \in Sym |-> c]

\* C5: every row of the ranks matrix compute_markov returns is a
\* permutation of 0..6, whatever ties the row's transition counts hold, rows
\* of zero counts included.
C5_RowsArePermutations ==
    pc = "huffman" =>
        \A i \in Sym : {ranks[i][c] : c \in Sym} = Sym

C5_Witness ==
    /\ pc = "huffman"
    /\ LET mat == MatAfter(frame, NumPixels(frame))
       IN  /\ \E i \in Sym : \A c \in Sym : mat[i][c] = 0
           /\ \E i \in Sym : \E a, b, c \in Sym :
                 a # b /\ mat[i][a] = mat[i][b] /\ mat[i][a] > 0 /\ mat[i][c] = 0
    /\ \A i \in Sym : {ranks[i][c] : c \in Sym} = Sym

\* C6: the cnt array compute_markov returns, of 16-bit unsigned counters,
\* sums to h*w.
C6_HistogramConservation ==
    pc = "huffman" =>
        /\ SumOver(cnts, NUMCHARS) = Height(frame) * Width(frame)
        /\ \A i \in Sym : cnts[i] \in 0..65535

C6_Witness ==
    /\ pc = "huffman"
    /\ NumPixels(frame) = MaxPixels
    /\ Cardinality({i \in Sym : cnts[i] > 0}) >= 2
    /\ SumOver(cnts, NUMCHARS) = MaxPixels

-----------------------------------------------------------------------------
(* Properties of the program's output order and of process_frame *)

\* The three byte arrays the encode loop writes for a greyscale frame.
RecordOf(v) ==
    LET f  == ProcessFrame(v)
        m  == ComputeMarkov(f)
        hf == ComputeHuffman(m.cnt)
    IN  <<EncodeMatrix(m.ranks), EncodeTree(hf.tree),
          ConvertHuffman(m.out, hf.codes, f)>>

\* C7: whatever order the dithering workers finish in, the byte arrays
\* written to the file are, in this order, the rank-matrix bytes, the tree
\* bytes and the codeword bytes of loaded frame 1, then those of frame 2, and
\* so on: records are in input order and their parts are not interleaved.
C7_WriteOrder ==
    /\ Len(filehandle) <= 3 * Len(vid_frames)
    /\ \A i \in 1..Len(vid_frames) :
          3 * (i - 1) < Len(filehandle) =>
              LET rec == RecordOf(vid_frames[i])
              IN  \A part \in 1..3 :
                      3 * (i - 1) + part <= Len(filehandle) =>
                          filehandle[3 * (i - 1) + part] = rec[part]
    /\ pc = "done" => Len(filehandle) = 3 * Len(vid_frames)

C7_Witness ==
    /\ pc = "done"
    /\ Len(vid_frames) = 2
    /\ finish_order = <<2, 1>>
    /\ RecordOf(vid_frames[1]) # RecordOf(vid_frames[2])
    /\ Len(filehandle) = 6

InBounds(ty, tx) == ty \in 0..(HEIGHT - 1) /\ tx \in 0..(WIDTH - 1)

\* C10 as stated: the visit of cell (x, y) adds error to exactly the
\* in-bounds cells among right (weight 7), below (5), below-left (3) and
\* below-right (1).
C10_DiffusionTargets ==
    (pc = "dither_cell" /\ pos > 0) =>
        LET y == (pos - 1) \div WIDTH
            x == (pos - 1) % WIDTH
        IN  touched = {t \in {<<y, x + 1, 7>>, <<y + 1, x, 5>>,
                              <<y + 1, x - 1, 3>>, <<y + 1, x + 1, 1>>} :
                          InBounds(t[1], t[2])}

====
